---------------------------- MODULE Spec2Model ----------------------------
(***************************************************************************)
(* Label synthesis of ScannetDetectionDataset.__getitem__                  *)
(* (scannet/scannet_detection_dataset_hd.py) as a state machine: one call  *)
(* of __getitem__ on one scene, from the loaded arrays to the returned     *)
(* label bundle.                                                           *)
(*                                                                         *)
(* Numbers.  Every real number of the program is a fixed-point number with *)
(* denominator Den: the integer n stands for n / Den.  Angles are counted  *)
(* in units of pi / 36 (5 degrees).  The cosine and the sine of the angles *)
(* the model uses are rounded to the rational point (264/265, 23/265) of   *)
(* the unit circle for 5 degrees, so that every rotation is exactly        *)
(* orthogonal and every product the program forms is an exact fixed-point  *)
(* number.  Sequences are 1-based: row j of the model is row j-1 of the    *)
(* numpy array, and column c of a metadata row is column c-1.              *)
(***************************************************************************)
EXTENDS Integers, Sequences, FiniteSets, TLC

(***************************************************************************)
(* Bounds of the model.                                                    *)
(***************************************************************************)
\* number of points of a scene (N)
SceneSize == 3

(***************************************************************************)
(* Program constants.  MAX_NUM_OBJ is 64 and the plane-group threshold is  *)
(* 10 in the source; both are scaled down with the scene (3 points), so    *)
(* that a scene can have more instances than MAX_NUM_OBJ and a plane group *)
(* can be above, at and below the threshold.                               *)
(***************************************************************************)
MAX_NUM_OBJ == 2
MIN_PLANE_POINTS == 1

\* fixed-point denominator; Den = 265 makes (264, 23) a point of the circle
Den == 265
\* pi in angle units
Pi == 36

---------------------------------------------------------------------------
(***************************************************************************)
(* Sequences and vectors.                                                  *)
(***************************************************************************)
Range(s) == {s[i] : i \in DOMAIN s}

Min(a, b) == IF a < b THEN a ELSE b

Abs(a) == IF a < 0 THEN -a ELSE a

\* the elements of a finite set of integers in ascending order (np.unique)
RECURSIVE SortedSeq(_)
SortedSeq(S) ==
    IF S = {} THEN <<>>
    ELSE LET m == CHOOSE x \in S : \A y \in S : x <= y
         IN  <<m>> \o SortedSeq(S \ {m})

Zeros(n) == [i \in 1..n |-> 0]

ZeroRows(n, w) == [i \in 1..n |-> Zeros(w)]

VAdd(a, b) == [i \in DOMAIN a |-> a[i] + b[i]]

VSub(a, b) == [i \in DOMAIN a |-> a[i] - b[i]]

VNeg(a) == [i \in DOMAIN a |-> -a[i]]

\* a scalar integer factor times a vector
VScale(k, a) == [i \in DOMAIN a |-> k * a[i]]

\* the fixed-point number of the integer n
Fx(n) == n * Den

\* the fixed-point product of two fixed-point numbers
FMul(a, b) == (a * b) \div Den

\* the fixed-point dot product of two 3-vectors (one division for the sum:
\* the sum is a multiple of Den where the single products need not be)
Dot(a, b) == (a[1] * b[1] + a[2] * b[2] + a[3] * b[3]) \div Den

\* the squared length of a 3-vector, in units of Den^-2 (no division)
SqLen(a) == a[1] * a[1] + a[2] * a[2] + a[3] * a[3]

Cross(a, b) == << a[2] * b[3] - a[3] * b[2],
                  a[3] * b[1] - a[1] * b[3],
                  a[1] * b[2] - a[2] * b[1] >>

---------------------------------------------------------------------------
(***************************************************************************)
(* np.cos and np.sin on the angles q * (pi/2) + r * (pi/36), r in -1..1.   *)
(***************************************************************************)
Quarter(a) == (a + 1) \div 18

CosQ(q) == CASE q % 4 = 0 -> 1 [] q % 4 = 1 -> 0 [] q % 4 = 2 -> -1 [] OTHER -> 0

SinQ(q) == CASE q % 4 = 0 -> 0 [] q % 4 = 1 -> 1 [] q % 4 = 2 -> 0 [] OTHER -> -1

CosR(r) == IF r = 0 THEN Den ELSE 264

SinR(r) == 23 * r

Cos(a) ==
    LET q == Quarter(a)
        r == a - 18 * q
    IN  CosQ(q) * CosR(r) - SinQ(q) * SinR(r)

Sin(a) ==
    LET q == Quarter(a)
        r == a - 18 * q
    IN  SinQ(q) * CosR(r) + CosQ(q) * SinR(r)

---------------------------------------------------------------------------
(***************************************************************************)
(* The dataset configuration DC (model_util_scannet.ScannetDatasetConfig). *)
(***************************************************************************)
\* the semantic ids of the valid object classes, in class order
nyu40ids == <<3, 4, 5>>

\* semantic id -> class index (0-based, as in the program)
nyu40id2class(x) == (CHOOSE i \in DOMAIN nyu40ids : nyu40ids[i] = x) - 1

\* semantic id -> per-point semantic class
nyu40id2class_sem(x) == (CHOOSE i \in DOMAIN nyu40ids : nyu40ids[i] = x) - 1

\* np.where(DC.nyu40ids == x)[0][0]
ClassInd(x) == (CHOOSE i \in DOMAIN nyu40ids : nyu40ids[i] = x) - 1

\* per-class mean size (row c of the model is class index c - 1)
mean_size_arr == << <<Fx(2), Fx(2), Fx(2)>>,
                    <<Fx(2), Fx(2), Fx(2)>>,
                    <<Fx(2), Fx(2), Fx(2)>> >>

\* the bin counts DC.num_heading_bin is configured with
HeadingBins == {1, 12}

\* an angle brought into (-pi, pi]
WrapAngle(a) == ((a + Pi - 1) % (2 * Pi)) - (Pi - 1)

\* the sector of (-pi, pi] that holds the angle, and the signed offset from
\* the centre of that sector
angle2class2(angle, numBins) ==
    LET w   == (2 * Pi) \div numBins
        a   == WrapAngle(angle)
        cls == (a + Pi - 1) \div w
    IN  <<cls, a - (-Pi + cls * w + w \div 2)>>

class2angle2(cls, residual, numBins) ==
    LET w == (2 * Pi) \div numBins
    IN  (-Pi + cls * w + w \div 2) + residual

InDomain(angle) == -Pi < angle /\ angle <= Pi

---------------------------------------------------------------------------
(***************************************************************************)
(* The scenes.  A scene is SceneSize points of the pool below, in pool     *)
(* order; a point is its row of mesh_vertices (xyz, and the colour, which  *)
(* the model keeps as the pool index of the point), its row of             *)
(* plane_vertices (a 4-vector and the plane patch id) and its row of       *)
(* meta_vertices (centre 3, size 3, heading, instance id, semantic id).    *)
(***************************************************************************)
MetaRow(c, s, h, ins, sem) ==
    <<Fx(c[1]), Fx(c[2]), Fx(c[3]), Fx(s[1]), Fx(s[2]), Fx(s[3]), h, ins, sem>>

PlaneRow(n, d, patch) == <<Fx(n[1]), Fx(n[2]), Fx(n[3]), Fx(d), patch>>

\* instance 1: a box of size 2 at the origin, heading 0, a valid class
MetaA == MetaRow(<<0, 0, 0>>, <<2, 2, 2>>, 0, 1, 3)
\* instance 2: heading pi/2, a valid class
MetaB == MetaRow(<<4, 0, 0>>, <<2, 4, 2>>, 18, 2, 4)
\* instance id 0 (background), semantic id 0
MetaZ == MetaRow(<<0, 0, 0>>, <<0, 0, 0>>, 0, 0, 0)
\* instance id 0 whose points carry a valid semantic id
MetaZv == MetaRow(<<0, 0, 0>>, <<0, 0, 0>>, 0, 0, 3)
\* instance 4: heading pi, a valid class
MetaD == MetaRow(<<0, -4, 0>>, <<2, 2, 2>>, 36, 4, 5)
\* a row of instance 1 that differs from MetaA in centre and semantic id,
\* and whose semantic id is not a valid object class: alone in a scene it is
\* an instance of a class that is not kept, beside a point of MetaA it is a
\* scene whose metadata rows disagree
MetaA2 == MetaRow(<<2, 0, 0>>, <<2, 2, 2>>, 0, 1, 1)

PoolPoint(x, pl, m) == [xyz |-> <<Fx(x[1]), Fx(x[2]), Fx(x[3])>>, plane |-> pl, meta |-> m]

Pool == <<
    PoolPoint(<<0, 0, 0>>,  PlaneRow(<<0, 0, 1>>, 1, 1),  MetaA),
    PoolPoint(<<1, 0, 1>>,  PlaneRow(<<0, 0, 1>>, 1, 1),  MetaA),
    PoolPoint(<<4, 1, 0>>,  PlaneRow(<<1, 0, 0>>, -4, 1), MetaB),
    PoolPoint(<<3, 3, 0>>,  PlaneRow(<<0, 0, 0>>, 0, 0),  MetaZ),
    PoolPoint(<<-3, 3, 0>>, PlaneRow(<<0, 0, 0>>, 0, 0),  MetaZv),
    PoolPoint(<<0, -4, 1>>, PlaneRow(<<0, 0, 1>>, -1, 0), MetaD),
    PoolPoint(<<1, 0, 0>>,  PlaneRow(<<0, 0, 1>>, 1, 1),  MetaA2) >>

Scenes ==
    {s \in [1..SceneSize -> DOMAIN Pool] :
        \A i \in 1..(SceneSize - 1) : s[i] < s[i + 1]}

\* the target point counts the dataset is configured with
NumPointsChoices == {SceneSize - 1, SceneSize}

(***************************************************************************)
(* pc_util's voxelizer (lines 262-269 call it): the occupancy grid of a    *)
(* point cloud and the heatmaps of seed points.  A grid is the set of its  *)
(* occupied cells; a heatmap is given by the cells its seeds fall in and   *)
(* the number of seeds in each, the kernel sum being a function of them.   *)
(***************************************************************************)
\* the voxel edge length, one unit of length
VoxelEdge == Den

\* the grid holds the cells -GridHalf .. GridHalf - 1 along every axis
GridHalf == 4

\* the cell of a point
Cell(v) == <<v[1] \div VoxelEdge, v[2] \div VoxelEdge, v[3] \div VoxelEdge>>

\* points outside the grid extent are dropped
InGrid(c) == \A a \in 1..3 : c[a] >= -GridHalf /\ c[a] < GridHalf

point_cloud_to_voxel_scene(cloud) ==
    {c \in {Cell(cloud[j]) : j \in DOMAIN cloud} : InGrid(c)}

\* the boxes as centre and size
process_bbx(bbx) == {SubSeq(b, 1, 6) : b \in bbx}

\* the 8 corners of every box, without its angle, deduplicated
get_corner(bbx) ==
    UNION { { << b[1] + sx * (b[4] \div 2), b[2] + sy * (b[5] \div 2), b[3] + sz * (b[6] \div 2) >> :
                sx \in {-1, 1}, sy \in {-1, 1}, sz \in {-1, 1} } : b \in bbx }

\* the heatmap of a set of seed points
point_to_volume_gaussion(points) ==
    LET placed == {<<Cell(q), q>> : q \in points}
        cells  == {c \in {p[1] : p \in placed} : InGrid(c)}
    IN  { <<c, Cardinality({p \in placed : p[1] = c})>> : c \in cells }

\* line 263: np.unique(meta_vertices, axis=0)
UniqueRows(a) == Range(a)

\* the grids of lines 173-181 left in place of the one computed
VoxKeepLoaded(loaded, cloud) == loaded

\* line 262: vox = pc_util.point_cloud_to_voxel_scene(point_cloud[:,0:3])
VoxAssign(loaded, cloud) == point_cloud_to_voxel_scene(cloud)

\* lines 263-266
VoxCenterAssign(meta) ==
    point_to_volume_gaussion({SubSeq(b, 1, 3) : b \in process_bbx(UniqueRows(meta))})

\* lines 263-269
VoxCornerAssign(meta) ==
    point_to_volume_gaussion(get_corner(process_bbx(UniqueRows(meta))))

---------------------------------------------------------------------------
VARIABLES
    scene,            \* the pool indices of the scene's points (the files read)
    num_points,       \* self.num_points
    augment,          \* self.augment
    num_heading_bin,  \* DC.num_heading_bin
    pc,               \* the position of the call
    err,              \* the exception the call raised, "" if none
    choices,          \* the indices of the last draw
    resampled,        \* whether a pass of the sampling loop has rejected its draw
    point_cloud, pcl_color, plane_vertices, meta_vertices,
    instance_labels, semantic_labels,
    point_yz, point_xz, point_rot,
    i_instance,       \* the position of the instance loop in np.unique(instance_labels)
    obj_meta,
    corners,          \* the corners of the last instance kept, <<>> before
    point_votes, point_votes_corner, point_votes_mask, point_sem_label,
    plane_label_mask,
    plane_votes_front, plane_votes_back, plane_votes_left,
    plane_votes_right, plane_votes_upper, plane_votes_lower,
    target_bboxes, target_bboxes_mask,
    angle_classes, angle_residuals, size_classes, size_residuals,
    vox, vox_center, vox_corner,   \* the voxel grid and the two heatmaps
    ret_dict          \* the returned bundle's derived fields, <<>> before the return

inputVars == <<scene, num_points, augment, num_heading_bin>>

sceneVars == <<point_cloud, pcl_color, plane_vertices, meta_vertices,
               instance_labels, semantic_labels>>

augVars == <<point_yz, point_xz, point_rot>>

pointLabelVars == <<point_votes, point_votes_corner, point_votes_mask, point_sem_label>>

planeLabelVars == <<plane_label_mask, plane_votes_front, plane_votes_back,
                    plane_votes_left, plane_votes_right, plane_votes_upper,
                    plane_votes_lower>>

boxVars == <<target_bboxes, target_bboxes_mask, angle_classes, angle_residuals,
             size_classes, size_residuals>>

voxVars == <<vox, vox_center, vox_corner>>

sampleVars == <<choices, resampled>>

vars == <<inputVars, pc, err, sampleVars, sceneVars, augVars, i_instance, obj_meta, corners,
          pointLabelVars, planeLabelVars, boxVars, voxVars, ret_dict>>

\* the rotation matrix as its (cos, sin) pair; np.eye(3) is (1, 0)
Eye == <<Den, 0>>

(***************************************************************************)
(* Lines 163-209 and 278-321: the scene's arrays as loaded, and the label  *)
(* arrays zeroed.                                                          *)
(***************************************************************************)
Init ==
    /\ scene \in Scenes
    /\ num_points \in NumPointsChoices
    /\ augment \in BOOLEAN
    /\ num_heading_bin \in HeadingBins
    /\ pc = "sample"
    /\ err = ""
    /\ choices = <<>>
    /\ resampled = FALSE
    /\ point_cloud = [j \in 1..SceneSize |-> Pool[scene[j]].xyz]
    /\ pcl_color = [j \in 1..SceneSize |-> scene[j]]
    /\ plane_vertices = [j \in 1..SceneSize |-> Pool[scene[j]].plane]
    /\ meta_vertices = [j \in 1..SceneSize |-> Pool[scene[j]].meta]
    /\ instance_labels = [j \in 1..SceneSize |-> Pool[scene[j]].meta[8]]
    /\ semantic_labels = [j \in 1..SceneSize |-> Pool[scene[j]].meta[9]]
    /\ point_yz = -1
    /\ point_xz = -1
    /\ point_rot = Eye
    /\ i_instance = 1
    /\ obj_meta = <<>>
    /\ corners = <<>>
    /\ point_votes = ZeroRows(num_points, 3)
    /\ point_votes_corner = ZeroRows(num_points, 3)
    /\ point_votes_mask = Zeros(num_points)
    /\ point_sem_label = Zeros(num_points)
    /\ plane_label_mask = Zeros(num_points)
    /\ plane_votes_front = ZeroRows(num_points, 4)
    /\ plane_votes_back = ZeroRows(num_points, 4)
    /\ plane_votes_left = ZeroRows(num_points, 4)
    /\ plane_votes_right = ZeroRows(num_points, 4)
    /\ plane_votes_upper = ZeroRows(num_points, 4)
    /\ plane_votes_lower = ZeroRows(num_points, 4)
    /\ target_bboxes = ZeroRows(MAX_NUM_OBJ, 6)
    /\ target_bboxes_mask = Zeros(MAX_NUM_OBJ)
    /\ angle_classes = Zeros(MAX_NUM_OBJ)
    /\ angle_residuals = Zeros(MAX_NUM_OBJ)
    /\ size_classes = Zeros(MAX_NUM_OBJ)
    /\ size_residuals = ZeroRows(MAX_NUM_OBJ, 3)
    /\ vox = point_cloud_to_voxel_scene([j \in 1..SceneSize |-> Pool[scene[j]].xyz])
    /\ vox_center = VoxCenterAssign([j \in 1..SceneSize |-> Pool[scene[j]].meta])
    /\ vox_corner = VoxCornerAssign([j \in 1..SceneSize |-> Pool[scene[j]].meta])
    /\ ret_dict = <<>>

---------------------------------------------------------------------------
(***************************************************************************)
(* Lines 211-225: the rejection-sampling loop.                             *)
(***************************************************************************)
\* np.unique of a sequence of integers: its distinct values, ascending
Unique(s) == SortedSeq(Range(s))

\* a[choices]
Take(a, c) == [j \in DOMAIN c |-> a[c[j]]]

\* pc_util.random_sampling(pc, num_sample, return_choices=True): the draws of
\* num_sample indices out of n without replacement, in the order drawn
random_sampling(n, num_sample) ==
    {c \in [1..num_sample -> 1..n] :
        \A i, j \in 1..num_sample : i # j => c[i] # c[j]}

\* a test that only looks at the largest id, as in
\* before_sample[-1] == after_sample[-1]
SampleKeepsLargestId(labels, c) ==
    Unique(labels)[Len(Unique(labels))] = Unique(Take(labels, c))[Len(Unique(Take(labels, c)))]

\* line 217: np.array_equal(before_sample, after_sample)
SampleKeepsInstances(labels, c) == Unique(labels) = Unique(Take(labels, c))

\* one pass of the loop whose draw is rejected: nothing but choices changes
SampleReject ==
    /\ pc = "sample"
    /\ \E c \in random_sampling(Len(point_cloud), num_points) :
        /\ ~SampleKeepsInstances(instance_labels, c)
        /\ choices' = c
    /\ resampled' = TRUE
    /\ UNCHANGED <<voxVars, inputVars, pc, err, sceneVars, augVars, i_instance, obj_meta, corners,
                   pointLabelVars, planeLabelVars, boxVars, ret_dict>>

\* an index array left over from an earlier pass, where there was one
ChoicesOfEarlierPass(earlier, c) == IF earlier = <<>> THEN c ELSE earlier

\* the choices that lines 220-225 read: line 214 rebinds the name on every
\* pass, so it is the draw c of the last pass and not an earlier one
ChoicesAfterLoop(earlier, c) == c

\* the pass whose draw is accepted (line 218), and lines 220-225 after the loop
SampleAccept ==
    /\ pc = "sample"
    /\ \E c \in random_sampling(Len(point_cloud), num_points) :
        /\ SampleKeepsInstances(instance_labels, c)
        /\ choices' = c
        /\ point_cloud' = Take(point_cloud, c)
        /\ instance_labels' = Take(instance_labels, ChoicesAfterLoop(choices, c))
        /\ semantic_labels' = Take(semantic_labels, ChoicesAfterLoop(choices, c))
        /\ plane_vertices' = Take(plane_vertices, ChoicesAfterLoop(choices, c))
        /\ meta_vertices' = Take(meta_vertices, ChoicesAfterLoop(choices, c))
        /\ pcl_color' = Take(pcl_color, ChoicesAfterLoop(choices, c))
    /\ pc' = "augment"
    /\ UNCHANGED <<resampled, voxVars, inputVars, err, augVars, i_instance, obj_meta, corners,
                   pointLabelVars, planeLabelVars, boxVars, ret_dict>>

---------------------------------------------------------------------------
(***************************************************************************)
(* Lines 231-260: data augmentation.                                       *)
(***************************************************************************)
\* the values of rot_angle the model draws: the lower end of the range
\* [-pi/36, pi/36) and its middle
RotAngles == {-1, 0}

\* pc_util.rotz(t), as its (cos, sin) pair
rotz(t) == <<Cos(t), Sin(t)>>

\* the matrix rot applied to the first three columns of a row
RotRow(rot, v) ==
    [c \in DOMAIN v |->
        CASE c = 1 -> (rot[1] * v[1] - rot[2] * v[2]) \div Den
          [] c = 2 -> (rot[2] * v[1] + rot[1] * v[2]) \div Den
          [] OTHER -> v[c]]

\* column c of every row times -1
NegCol(a, c) == [j \in DOMAIN a |-> [a[j] EXCEPT ![c] = -a[j][c]]]

\* the flip of lines 236-242 without line 241: the points and the heading
\* are mirrored, the instance centres are not
FlipYZKeepsCenters(on, a, isMeta) ==
    IF ~on THEN a
    ELSE IF isMeta THEN NegCol(a, 7) ELSE NegCol(a, 1)

\* lines 236-242: flipping along the YZ plane
FlipYZ(on, a, isMeta) ==
    IF ~on THEN a
    ELSE IF isMeta THEN NegCol(NegCol(a, 1), 7) ELSE NegCol(a, 1)

\* lines 245-251: flipping along the XZ plane
FlipXZ(on, a, isMeta) ==
    IF ~on THEN a
    ELSE IF isMeta THEN NegCol(NegCol(a, 2), 7) ELSE NegCol(a, 2)

\* model_util_scannet.rotate_aligned_boxes on the first six columns: the
\* centres rotate, the extents do not
rotate_aligned_boxes(a, rot) == [j \in DOMAIN a |-> RotRow(rot, a[j])]

\* lines 254-260: the rotation about the z axis
Rotated(a, rot) == [j \in DOMAIN a |-> RotRow(rot, a[j])]

RotatedMeta(a, rot, rot_angle) ==
    LET b == rotate_aligned_boxes(a, rot)
    IN  [j \in DOMAIN b |-> [b[j] EXCEPT ![7] = b[j][7] + rot_angle]]

\* a flag that stays at the -1 of lines 231-232 when the flip is applied
AugFlagNeverSet(on) == -1

\* lines 231-232, 237 and 246: the flag of a flip, 1 when it is applied
AugFlag(on) == IF on THEN 1 ELSE -1

\* self.augment is off: lines 231-233, and the grids of lines 262-269
AugmentOff ==
    /\ pc = "augment"
    /\ ~augment
    /\ vox' = VoxAssign(vox, point_cloud)
    /\ vox_center' = VoxCenterAssign(meta_vertices)
    /\ vox_corner' = VoxCornerAssign(meta_vertices)
    /\ pc' = "instances"
    /\ UNCHANGED <<inputVars, err, sampleVars, sceneVars, augVars, i_instance, obj_meta, corners,
                   pointLabelVars, planeLabelVars, boxVars, ret_dict>>

\* self.augment is on: the two coin flips and the rotation angle are drawn,
\* lines 234-260, and the grids of lines 262-269
AugmentOn ==
    /\ pc = "augment"
    /\ augment
    /\ \E yz \in BOOLEAN, xz \in BOOLEAN, rot_angle \in RotAngles :
        LET rot_mat == rotz(rot_angle)
        IN  /\ point_yz' = AugFlag(yz)
            /\ point_xz' = AugFlag(xz)
            /\ point_rot' = rot_mat
            /\ point_cloud' =
                 Rotated(FlipXZ(xz, FlipYZ(yz, point_cloud, FALSE), FALSE), rot_mat)
            /\ plane_vertices' =
                 Rotated(FlipXZ(xz, FlipYZ(yz, plane_vertices, FALSE), FALSE), rot_mat)
            /\ meta_vertices' =
                 RotatedMeta(FlipXZ(xz, FlipYZ(yz, meta_vertices, TRUE), TRUE),
                             rot_mat, rot_angle)
    /\ vox' = VoxAssign(vox, point_cloud')
    /\ vox_center' = VoxCenterAssign(meta_vertices')
    /\ vox_corner' = VoxCornerAssign(meta_vertices')
    /\ pc' = "instances"
    /\ UNCHANGED <<inputVars, err, sampleVars, pcl_color, instance_labels,
                   semantic_labels, i_instance, obj_meta, corners,
                   pointLabelVars, planeLabelVars, boxVars, ret_dict>>

---------------------------------------------------------------------------
(***************************************************************************)
(* The geometry kernel.                                                    *)
(***************************************************************************)
\* the corners with the roles of x and z exchanged in the order: the lowest
\* bit of the corner index on x, the highest on z
params2bboxZFirst(center, xsize, ysize, zsize, angle) ==
    LET vx == << FMul(Cos(angle), Abs(xsize)) \div 2,
                 FMul(Sin(angle), Abs(xsize)) \div 2, 0 >>
        vy == << FMul(-Sin(angle), Abs(ysize)) \div 2,
                 FMul(Cos(angle), Abs(ysize)) \div 2, 0 >>
        vz == << 0, 0, Abs(zsize) \div 2 >>
    IN  << VSub(VSub(VSub(center, vx), vy), vz), VSub(VSub(VAdd(center, vx), vy), vz),
           VSub(VAdd(VSub(center, vx), vy), vz), VSub(VAdd(VAdd(center, vx), vy), vz),
           VAdd(VSub(VSub(center, vx), vy), vz), VAdd(VSub(VAdd(center, vx), vy), vz),
           VAdd(VAdd(VSub(center, vx), vy), vz), VAdd(VAdd(VAdd(center, vx), vy), vz) >>

\* lines 41-62
params2bbox(center, xsize, ysize, zsize, angle) ==
    LET vx == << FMul(Cos(angle), Abs(xsize)) \div 2,
                 FMul(Sin(angle), Abs(xsize)) \div 2, 0 >>
        vy == << FMul(-Sin(angle), Abs(ysize)) \div 2,
                 FMul(Cos(angle), Abs(ysize)) \div 2, 0 >>
        vz == << 0, 0, Abs(zsize) \div 2 >>
        mm == VSub(VSub(center, vx), vy)
        mp == VAdd(VSub(center, vx), vy)
        pm == VSub(VAdd(center, vx), vy)
        pp == VAdd(VAdd(center, vx), vy)
    IN  << VSub(mm, vz), VAdd(mm, vz), VSub(mp, vz), VAdd(mp, vz),
           VSub(pm, vz), VAdd(pm, vz), VSub(pp, vz), VAdd(pp, vz) >>

\* line 344: the squared distances of the point x to the corners (units Den^-2)
CornerDist(bbox, x) == [c \in DOMAIN bbox |-> SqLen(VSub(x, bbox[c]))]

\* np.argmin: a scan that keeps the first minimum
RECURSIVE ArgMinScan(_, _, _)
ArgMinScan(d, i, best) ==
    IF i > Len(d) THEN best
    ELSE ArgMinScan(d, i + 1, IF d[i] < d[best] THEN i ELSE best)

\* a scan that keeps the last minimum
RECURSIVE ArgMinLastScan(_, _, _)
ArgMinLastScan(d, i, best) ==
    IF i > Len(d) THEN best
    ELSE ArgMinLastScan(d, i + 1, IF d[i] <= d[best] THEN i ELSE best)

ArgMinLast(d) == ArgMinLastScan(d, 2, 1)

ArgMin(d) == ArgMinScan(d, 2, 1)

\* the integer square root, by bisection
RECURSIVE ISqrtIn(_, _, _)
ISqrtIn(v, lo, hi) ==
    IF lo >= hi THEN lo
    ELSE LET mid == (lo + hi + 1) \div 2
         IN  IF mid * mid <= v THEN ISqrtIn(v, mid, hi) ELSE ISqrtIn(v, lo, mid - 1)

ISqrt(v) == ISqrtIn(v, 0, 16 * Den)

\* the scales of the plane vector a fit may return: the residual of lines
\* 33-36 is the distance normalised by the length of the normal, so every
\* multiple of a minimiser is a minimiser
FitScales == {1, 2}

\* scipy.optimize.leastsq(residuals, guess, args=(None, pts.T))[0] on four
\* points of one plane: k times the unit normal of the plane, on the side of
\* the guess, and the offset that puts the points on the plane
leastsq(guess, pts, k) ==
    LET e1 == VSub(pts[2], pts[1])
        e2 == VSub(pts[3], pts[1])
        cr == Cross(e1, e2)
        ll == ISqrt(SqLen(e1)) * ISqrt(SqLen(e2))
        nu == IF ll = 0 THEN guess
              ELSE [i \in 1..3 |-> (cr[i] * Den) \div ll]
        sg == IF Dot(nu, guess) < 0 THEN -1 ELSE 1
        n  == VScale(k * sg, nu)
        d  == -((Dot(n, pts[1]) + Dot(n, pts[2]) + Dot(n, pts[3]) + Dot(n, pts[4])) \div 4)
    IN  <<n[1], n[2], n[3], d>>

\* the opposite face fitted on its own (the call of line 374, commented out
\* in the source), the fit returning the unit normal
RefitPlane(plane, para_points) ==
    leastsq(<<plane[1], plane[2], plane[3]>>, para_points, 1)

\* lines 375-377 (and 380-382, 385-387): the plane of the opposite face
ParallelPlane(plane, para_points) ==
    LET n    == <<plane[1], plane[2], plane[3]>>
        newd == [i \in 1..4 |-> Dot(para_points[i], n)]
    IN  <<n[1], n[2], n[3], -((newd[1] + newd[2] + newd[3] + newd[4]) \div 4)>>

---------------------------------------------------------------------------
(***************************************************************************)
(* Lines 323-395: the loop over np.unique(instance_labels).                *)
(***************************************************************************)
\* line 325: np.where(instance_labels == i_instance)[0]
Ind(labels, ii) == SortedSeq({j \in DOMAIN labels : labels[j] = ii})

\* line 327: the semantic label of the instance's first point is a valid class
Retained(sem, ind) == sem[ind[1]] \in Range(nyu40ids)

\* a[ind, :] = row
SetRows(a, ind, row) == [j \in DOMAIN a |-> IF j \in Range(ind) THEN row ELSE a[j]]

\* line 340: point_votes_mask[ind] = 1.0
VoteMask(mask, ind) == SetRows(mask, ind, 1)

\* the vote with its sign turned: x - center
CenterVotesFromCenter(votes, ind, center, cloud) ==
    [j \in DOMAIN votes |-> IF j \in Range(ind) THEN VSub(cloud[j], center) ELSE votes[j]]

\* line 339: point_votes[ind, :] = center - x
CenterVotes(votes, ind, center, cloud) ==
    [j \in DOMAIN votes |-> IF j \in Range(ind) THEN VSub(center, cloud[j]) ELSE votes[j]]

\* lines 343-347: the vote of every member point to its nearest corner
CornerVotes(votes, ind, bbox, cloud) ==
    [j \in DOMAIN votes |->
        IF j \in Range(ind)
        THEN VSub(bbox[ArgMin(CornerDist(bbox, cloud[j]))], cloud[j])
        ELSE votes[j]]

\* the test of line 364 with >= in the place of >
PatchQualifiesAtLeast(n) == n >= MIN_PLANE_POINTS

\* line 364: a plane patch of the instance with this many points is kept
PatchQualifies(n) == n > MIN_PLANE_POINTS

\* every point of the instance taken as a point of a kept plane patch
PlaneIndAll(planes, ind) == Range(ind)

\* lines 358-370: the points of the instance in a kept plane patch
PlaneInd(planes, ind) ==
    {j \in Range(ind) :
        /\ planes[j][5] > 0
        /\ PatchQualifies(Cardinality({k \in Range(ind) : planes[k][5] = planes[j][5]}))}

\* a left face taken from the corners of the front face, 0, 1, 4, 5
LeftFaceOfFront(bbox) == <<bbox[1], bbox[2], bbox[5], bbox[6]>>

\* the corner quadruples of lines 373-387 (corner c of the program is c + 1)
LowerFace(bbox) == <<bbox[1], bbox[3], bbox[5], bbox[7]>>
UpperFace(bbox) == <<bbox[2], bbox[4], bbox[6], bbox[8]>>
LeftFace(bbox)  == <<bbox[1], bbox[2], bbox[3], bbox[4]>>
RightFace(bbox) == <<bbox[5], bbox[6], bbox[7], bbox[8]>>
FrontFace(bbox) == <<bbox[1], bbox[2], bbox[5], bbox[6]>>
BackFace(bbox)  == <<bbox[3], bbox[4], bbox[7], bbox[8]>>

\* plane_votes_x[plane_ind, :] = plane
SetPlane(a, plane_ind, plane) ==
    [j \in DOMAIN a |-> IF j \in plane_ind THEN plane ELSE a[j]]

InstanceIds == Unique(instance_labels)

\* line 327 is false: the instance is passed over
SkipInstance ==
    /\ pc = "instances"
    /\ i_instance <= Len(InstanceIds)
    /\ ~Retained(semantic_labels, Ind(instance_labels, InstanceIds[i_instance]))
    /\ i_instance' = i_instance + 1
    /\ UNCHANGED <<voxVars, inputVars, pc, err, sampleVars, sceneVars, augVars, obj_meta, corners,
                   pointLabelVars, planeLabelVars, boxVars, ret_dict>>

\* lines 371-395: the six planes of the box, one fit for each of the lower,
\* left and front faces, written to the points of plane_ind
LabelPlanes(plane_ind, bbox, plane_lower, plane_left, plane_front) ==
    /\ plane_label_mask' = SetPlane(plane_label_mask, plane_ind, 1)
    /\ plane_votes_upper' =
         SetPlane(plane_votes_upper, plane_ind, ParallelPlane(plane_lower, UpperFace(bbox)))
    /\ plane_votes_lower' = SetPlane(plane_votes_lower, plane_ind, plane_lower)
    /\ plane_votes_front' = SetPlane(plane_votes_front, plane_ind, plane_front)
    /\ plane_votes_back' =
         SetPlane(plane_votes_back, plane_ind, ParallelPlane(plane_front, BackFace(bbox)))
    /\ plane_votes_left' = SetPlane(plane_votes_left, plane_ind, plane_left)
    /\ plane_votes_right' =
         SetPlane(plane_votes_right, plane_ind, ParallelPlane(plane_left, RightFace(bbox)))

\* lines 332-395 for the points ind of the instance, its metadata row, its
\* corners and its points in a kept plane patch
LabelBox(ind, meta, center, bbox, plane_ind) ==
    /\ obj_meta' = Append(obj_meta, meta)
    /\ corners' = bbox
    /\ point_votes' = CenterVotes(point_votes, ind, center, point_cloud)
    /\ point_votes_mask' = VoteMask(point_votes_mask, ind)
    /\ point_sem_label' = SetRows(point_sem_label, ind, nyu40id2class_sem(meta[9]))
    /\ point_votes_corner' = CornerVotes(point_votes_corner, ind, bbox, point_cloud)
    /\ IF plane_ind = {}
       THEN UNCHANGED planeLabelVars
       ELSE \E kl \in FitScales, ke \in FitScales, kf \in FitScales :
              LabelPlanes(plane_ind, bbox,
                          leastsq(<<0, 0, Den>>, LowerFace(bbox), kl),
                          leastsq(<<Den, 0, 0>>, LeftFace(bbox), ke),
                          leastsq(<<0, Den, 0>>, FrontFace(bbox), kf))

\* lines 330, 334 and 337: the metadata row of the first point of the
\* instance, the centre and the corners it gives; lines 358-370: plane_ind
LabelRow(ind, meta) ==
    LabelBox(ind, meta, <<meta[1], meta[2], meta[3]>>,
             params2bbox(<<meta[1], meta[2], meta[3]>>, meta[4], meta[5], meta[6], meta[7]),
             PlaneInd(plane_vertices, ind))

\* lines 325-328 for the points ind of the instance
LabelMembers(ind) ==
    /\ Retained(semantic_labels, ind)
    /\ LabelRow(ind, meta_vertices[ind[1]])

\* line 327 is true: lines 328-395 for the instance
LabelInstance ==
    /\ pc = "instances"
    /\ i_instance <= Len(InstanceIds)
    /\ LabelMembers(Ind(instance_labels, InstanceIds[i_instance]))
    /\ i_instance' = i_instance + 1
    /\ UNCHANGED <<voxVars, inputVars, pc, err, sampleVars, sceneVars, augVars, boxVars, ret_dict>>

---------------------------------------------------------------------------
(***************************************************************************)
(* Lines 425-442: the per-box arrays.                                      *)
(***************************************************************************)
\* a[0:n] = 1 on an array of MAX_NUM_OBJ rows: the slice stops at the end
SliceOnes(n) == [i \in 1..MAX_NUM_OBJ |-> IF i <= n THEN 1 ELSE 0]

\* a[0:n] = rows where rows has n rows: numpy raises ValueError when the
\* slice, cut at MAX_NUM_OBJ rows, and rows differ in length
SliceFits(n) == Min(n, MAX_NUM_OBJ) = n

SliceSet(a, rows) == [i \in DOMAIN a |-> IF i <= Len(rows) THEN rows[i] ELSE a[i]]

\* line 430
BoxRows(meta) == [i \in DOMAIN meta |-> SubSeq(meta[i], 1, 6)]

\* line 431
ClassIndRows(meta) == [i \in DOMAIN meta |-> ClassInd(meta[i][9])]

\* lines 434-435
SizeResidualRows(meta) ==
    [i \in DOMAIN meta |->
        VSub(SubSeq(meta[i], 4, 6), mean_size_arr[ClassInd(meta[i][9]) + 1])]

\* lines 436-437, commented out in the source: the class index as heading
\* class and the heading itself as residual
HeadingLabelByClass(meta, i) == <<ClassInd(meta[i][9]), meta[i][7]>>

\* lines 439-441: the heading class and residual stored for box i
HeadingLabel(meta, i) == angle2class2(meta[i][7], num_heading_bin)

\* line 442 for box i, on a heading of the domain (-pi, pi]
HeadingAssertHolds(meta, i) ==
    LET l == HeadingLabel(meta, i)
    IN  class2angle2(l[1], l[2], num_heading_bin) = meta[i][7]

\* the boxes whose heading has left (-pi, pi] (a flip of pi, a rotation
\* past pi): what angle2class2 and the assert of line 442 do there is not
\* fixed by the program text
OutOfDomain(meta) == {i \in DOMAIN meta : ~InDomain(meta[i][7])}

\* more instances than MAX_NUM_OBJ: line 429 is done, line 430 raises
AssembleOverflow ==
    /\ pc = "instances"
    /\ i_instance > Len(InstanceIds)
    /\ ~SliceFits(Len(obj_meta))
    /\ target_bboxes_mask' = SliceOnes(Len(obj_meta))
    /\ err' = "ValueError"
    /\ pc' = "raised"
    /\ UNCHANGED <<voxVars, inputVars, sampleVars, sceneVars, augVars, i_instance, obj_meta, corners,
                   pointLabelVars, planeLabelVars, target_bboxes, angle_classes,
                   angle_residuals, size_classes, size_residuals, ret_dict>>

\* lines 425-442 run through
AssembleBoxes ==
    /\ pc = "instances"
    /\ i_instance > Len(InstanceIds)
    /\ SliceFits(Len(obj_meta))
    /\ \A i \in DOMAIN obj_meta : InDomain(obj_meta[i][7]) => HeadingAssertHolds(obj_meta, i)
    /\ target_bboxes_mask' = SliceOnes(Len(obj_meta))
    /\ target_bboxes' = SliceSet(target_bboxes, BoxRows(obj_meta))
    /\ size_classes' = SliceSet(size_classes, ClassIndRows(obj_meta))
    /\ size_residuals' = SliceSet(size_residuals, SizeResidualRows(obj_meta))
    /\ angle_classes' =
         SliceSet(angle_classes, [i \in DOMAIN obj_meta |-> HeadingLabel(obj_meta, i)[1]])
    /\ angle_residuals' =
         SliceSet(angle_residuals, [i \in DOMAIN obj_meta |-> HeadingLabel(obj_meta, i)[2]])
    /\ pc' = "return"
    /\ UNCHANGED <<voxVars, inputVars, err, sampleVars, sceneVars, augVars, i_instance, obj_meta, corners,
                   pointLabelVars, planeLabelVars, ret_dict>>

\* the assert of line 442 fails at box i: a heading outside the domain, or
\* a heading of the domain that does not decode to itself
AssembleAssertFails ==
    /\ pc = "instances"
    /\ i_instance > Len(InstanceIds)
    /\ SliceFits(Len(obj_meta))
    /\ \E i \in DOMAIN obj_meta :
        /\ ~InDomain(obj_meta[i][7]) \/ ~HeadingAssertHolds(obj_meta, i)
        /\ \A k \in 1..(i - 1) : InDomain(obj_meta[k][7]) => HeadingAssertHolds(obj_meta, k)
        /\ angle_classes' =
             SliceSet(angle_classes, [k \in 1..i |-> HeadingLabel(obj_meta, k)[1]])
        /\ angle_residuals' =
             SliceSet(angle_residuals, [k \in 1..i |-> HeadingLabel(obj_meta, k)[2]])
    /\ target_bboxes_mask' = SliceOnes(Len(obj_meta))
    /\ target_bboxes' = SliceSet(target_bboxes, BoxRows(obj_meta))
    /\ size_classes' = SliceSet(size_classes, ClassIndRows(obj_meta))
    /\ size_residuals' = SliceSet(size_residuals, SizeResidualRows(obj_meta))
    /\ err' = "AssertionError"
    /\ pc' = "raised"
    /\ UNCHANGED <<voxVars, inputVars, sampleVars, sceneVars, augVars, i_instance, obj_meta, corners,
                   pointLabelVars, planeLabelVars, ret_dict>>

---------------------------------------------------------------------------
(***************************************************************************)
(* Lines 445-522: the votes tripled and the bundle returned.               *)
(***************************************************************************)
\* np.tile(a, (1, 3))
Tile3(a) == [j \in DOMAIN a |-> a[j] \o a[j] \o a[j]]

\* np.tile(np.expand_dims(a, -1), (1, 3))
TileScalar3(a) == [j \in DOMAIN a |-> <<a[j], a[j], a[j]>>]

Rot3(a) == Tile3([j \in DOMAIN a |-> SubSeq(a[j], 1, 3)])

Off3(a) == TileScalar3([j \in DOMAIN a |-> a[j][4]])

\* lines 476-478
SemClsLabel(meta) ==
    SliceSet(Zeros(MAX_NUM_OBJ), [i \in DOMAIN meta |-> nyu40id2class(meta[i][9])])

Return ==
    /\ pc = "return"
    /\ ret_dict' =
         [ point_clouds |-> point_cloud,
           center_label |-> [i \in DOMAIN target_bboxes |-> SubSeq(target_bboxes[i], 1, 3)],
           heading_class_label |-> angle_classes,
           heading_residual_label |-> angle_residuals,
           size_class_label |-> size_classes,
           size_residual_label |-> size_residuals,
           sem_cls_label |-> SemClsLabel(obj_meta),
           point_sem_cls_label |-> TileScalar3(point_sem_label),
           box_label_mask |-> target_bboxes_mask,
           vote_label |-> Tile3(point_votes),
           vote_label_corner |-> Tile3(point_votes_corner),
           vote_label_mask |-> point_votes_mask,
           plane_label |-> [j \in DOMAIN point_cloud |->
                               point_cloud[j] \o SubSeq(plane_vertices[j], 1, 4)],
           plane_label_mask |-> plane_label_mask,
           plane_votes_rot_front |-> Rot3(plane_votes_front),
           plane_votes_off_front |-> Off3(plane_votes_front),
           plane_votes_rot_back |-> Rot3(plane_votes_back),
           plane_votes_off_back |-> Off3(plane_votes_back),
           plane_votes_rot_left |-> Rot3(plane_votes_left),
           plane_votes_off_left |-> Off3(plane_votes_left),
           plane_votes_rot_right |-> Rot3(plane_votes_right),
           plane_votes_off_right |-> Off3(plane_votes_right),
           plane_votes_rot_lower |-> Rot3(plane_votes_lower),
           plane_votes_off_lower |-> Off3(plane_votes_lower),
           plane_votes_rot_upper |-> Rot3(plane_votes_upper),
           plane_votes_off_upper |-> Off3(plane_votes_upper),
           pcl_color |-> pcl_color,
           num_instance |-> Len(obj_meta),
           voxel |-> vox,
           vox_center |-> vox_center,
           vox_corner |-> vox_corner,
           aug_yz |-> point_yz,
           aug_xz |-> point_xz,
           aug_rot |-> point_rot ]
    /\ pc' = "done"
    /\ UNCHANGED <<voxVars, inputVars, err, sampleVars, sceneVars, augVars, i_instance, obj_meta, corners,
                   pointLabelVars, planeLabelVars, boxVars>>

---------------------------------------------------------------------------
Next ==
    \/ SampleReject
    \/ SampleAccept
    \/ AugmentOff
    \/ AugmentOn
    \/ SkipInstance
    \/ LabelInstance
    \/ AssembleOverflow
    \/ AssembleBoxes
    \/ AssembleAssertFails
    \/ Return

Spec == Init /\ [][Next]_vars

(***************************************************************************)
(* The call keeps running while it can, and a draw that the scene allows   *)
(* at every pass of the loop is drawn at some pass: np.random.choice gives *)
(* every draw a positive probability, so a run that rejects for ever while *)
(* an acceptable draw exists has probability 0.                            *)
(***************************************************************************)
FairSpec == Spec /\ WF_vars(Next) /\ WF_vars(SampleAccept)

---------------------------------------------------------------------------
(***************************************************************************)
(* The properties.                                                         *)
(***************************************************************************)
\* the instance ids of the full scene, read from the scene's files
FullInstanceIds == {Pool[scene[j]].meta[8] : j \in DOMAIN scene}

\* the ids that only one point of the full scene carries
RareInstanceIds ==
    {ii \in FullInstanceIds :
        Cardinality({j \in DOMAIN scene : Pool[scene[j]].meta[8] = ii}) = 1}

\* C1: once the rejection-sampling loop has accepted a draw, the instance ids
\* among the sampled points are exactly the instance ids of the full scene.
C1_SubsampleKeepsInstanceIds ==
    pc # "sample" =>
        /\ Range(instance_labels) = FullInstanceIds
        /\ instance_labels = [j \in DOMAIN choices |-> Pool[scene[choices[j]]].meta[8]]

\* C1 witness: a draw of fewer points than the scene has was accepted in a
\* scene with an id that a single point carries, beside an id with two points.
C1_Witness ==
    /\ pc = "augment"
    /\ num_points < SceneSize
    /\ RareInstanceIds # {}
    /\ RareInstanceIds # FullInstanceIds

\* C2: the rejection loop ends in every run, with an accepted draw or with
\* an error.
C2_SamplingLoopEnds == <>(pc # "sample")

\* C3: once the instance loop has kept more instances than MAX_NUM_OBJ (all
\* of nonzero id, headings in the domain), the call does not raise, and a
\* returned box_label_mask has at most MAX_NUM_OBJ ones.
C3_OverflowIsTruncated ==
    ( /\ Len(obj_meta) > MAX_NUM_OBJ
      /\ \A i \in DOMAIN obj_meta : obj_meta[i][8] # 0 /\ InDomain(obj_meta[i][7]) )
    => /\ pc # "raised"
       /\ err = ""
       /\ pc = "done" =>
            /\ Len(ret_dict.box_label_mask) = MAX_NUM_OBJ
            /\ Cardinality({i \in 1..MAX_NUM_OBJ : ret_dict.box_label_mask[i] = 1})
                 <= MAX_NUM_OBJ


\* the metadata rows of the scene agree within every instance
SceneConsistent ==
    \A i, j \in DOMAIN scene :
        Pool[scene[i]].meta[8] = Pool[scene[j]].meta[8]
            => Pool[scene[i]].meta = Pool[scene[j]].meta

\* the first sampled point of the instance of point j (ind[0] of line 327)
FirstMember(j) ==
    CHOOSE k \in DOMAIN instance_labels :
        /\ instance_labels[k] = instance_labels[j]
        /\ \A l \in 1..(k - 1) : instance_labels[l] # instance_labels[j]

\* point j belongs to an instance that is kept: the semantic id of the
\* instance is a valid object class
KeptPoint(j) == semantic_labels[FirstMember(j)] \in Range(nyu40ids)

\* the metadata row of the instance of point j, after augmentation
InstanceRow(j) == meta_vertices[FirstMember(j)]

InstanceCenter(j) == SubSeq(InstanceRow(j), 1, 3)

InstanceCorners(j) ==
    LET m == InstanceRow(j)
    IN  params2bbox(SubSeq(m, 1, 3), m[4], m[5], m[6], m[7])

Triple(v) == v \o v \o v

\* C4: in the returned bundle, the centre vote of every member point of a
\* kept instance is the instance's centre (from its metadata row, after
\* augmentation) minus the point (after augmentation), three times over.
C4_CenterVoteIsCenterMinusPoint ==
    pc = "done" =>
        \A j \in DOMAIN instance_labels :
            KeptPoint(j) =>
                ret_dict.vote_label[j]
                    = Triple(VSub(InstanceCenter(j), ret_dict.point_clouds[j]))

\* C4 witness: a bundle returned after the flip along the YZ plane and a
\* rotation, with a member point that is not the first of its instance and
\* whose vote is not zero.
C4_Witness ==
    /\ pc = "done"
    /\ SceneConsistent
    /\ point_yz = 1
    /\ point_rot # Eye
    /\ \E j \in DOMAIN instance_labels :
        /\ KeptPoint(j)
        /\ FirstMember(j) # j
        /\ ret_dict.vote_label[j] # Zeros(9)

\* the ids of the groups the instance loop keeps (line 327), id 0 included
KeptIds == {instance_labels[j] : j \in {k \in DOMAIN instance_labels : KeptPoint(k)}}

\* point j is a member of a retained instance: its instance id is nonzero and
\* the semantic id of the instance is a valid object class
RetainedPoint(j) == instance_labels[j] # 0 /\ KeptPoint(j)

RetainedIds == KeptIds \ {0}

\* C5: in the returned bundle the vote mask is 1 on the member points of the
\* retained instances and 0 on every other point; a point that is not a
\* member of a retained instance has vote, corner vote, semantic label and
\* plane mask 0, and the box slots are those of the retained instances only.
C5_VoteMaskMarksRetainedInstances ==
    pc = "done" =>
        /\ \A j \in DOMAIN instance_labels :
            /\ ret_dict.vote_label_mask[j] = (IF RetainedPoint(j) THEN 1 ELSE 0)
            /\ ~RetainedPoint(j) =>
                /\ ret_dict.vote_label[j] = Zeros(9)
                /\ ret_dict.vote_label_corner[j] = Zeros(9)
                /\ ret_dict.point_sem_cls_label[j] = Zeros(3)
                /\ ret_dict.plane_label_mask[j] = 0
        /\ ret_dict.num_instance = Cardinality(RetainedIds)
        /\ {obj_meta[i][8] : i \in DOMAIN obj_meta} = RetainedIds

\* The same statement with the groups the loop of line 323 keeps in the place
\* of the retained instances: it differs from C5 on the points of instance
\* id 0 only, and it holds in every returned bundle.
VoteMaskMarksKeptGroups ==
    pc = "done" =>
        /\ \A j \in DOMAIN instance_labels :
            /\ ret_dict.vote_label_mask[j] = (IF KeptPoint(j) THEN 1 ELSE 0)
            /\ ~KeptPoint(j) =>
                /\ ret_dict.vote_label[j] = Zeros(9)
                /\ ret_dict.vote_label_corner[j] = Zeros(9)
                /\ ret_dict.point_sem_cls_label[j] = Zeros(3)
                /\ ret_dict.plane_label_mask[j] = 0
        /\ ret_dict.num_instance = Cardinality(KeptIds)
        /\ {obj_meta[i][8] : i \in DOMAIN obj_meta} = KeptIds

\* C6: the points of instance id 0 never get vote mask 1 and never produce a
\* box slot, whatever their semantic id.
C6_BackgroundIsNoInstance ==
    pc # "sample" =>
        /\ \A j \in DOMAIN instance_labels :
            instance_labels[j] = 0 => point_votes_mask[j] = 0
        /\ \A i \in DOMAIN obj_meta : obj_meta[i][8] # 0

\* the squared distance of point j to corner c of its instance
CornerSqDist(j, c) == SqLen(VSub(point_cloud[j], InstanceCorners(j)[c]))

\* the corner of bbox of least squared distance to x, the lowest index first
NearestOf(bbox, x) ==
    LET d == [c \in 1..8 |-> SqLen(VSub(x, bbox[c]))]
    IN  CHOOSE c \in 1..8 :
            \A i \in 1..8 :
                \/ d[c] < d[i]
                \/ d[c] = d[i] /\ c <= i

\* the corner of least squared distance to point j, the lowest index first
NearestCorner(j) == NearestOf(InstanceCorners(j), point_cloud[j])

\* that corner's position
NearestCornerPoint(j) ==
    LET bbox == InstanceCorners(j)
    IN  bbox[NearestOf(bbox, point_cloud[j])]

\* C7: in the returned bundle, the corner vote of every member point of a
\* kept instance is the nearest corner of the instance's box minus the point,
\* the corner of lowest index among the nearest ones.
C7_CornerVoteIsNearestCorner ==
    pc = "done" =>
        \A j \in DOMAIN instance_labels :
            KeptPoint(j) =>
                ret_dict.vote_label_corner[j]
                    = Triple(VSub(NearestCornerPoint(j), point_cloud[j]))

\* C7 witness: a bundle with a member point that has two nearest corners at
\* different places, and whose vote goes to the one of lower index.
C7_Witness ==
    /\ pc = "done"
    /\ SceneConsistent
    /\ \E j \in DOMAIN instance_labels :
        /\ KeptPoint(j)
        /\ \E c \in 1..8 :
            /\ c > NearestCorner(j)
            /\ CornerSqDist(j, c) = CornerSqDist(j, NearestCorner(j))
            /\ InstanceCorners(j)[c] # InstanceCorners(j)[NearestCorner(j)]
            /\ ret_dict.vote_label_corner[j]
                 # Triple(VSub(InstanceCorners(j)[c], point_cloud[j]))

\* +1 when the bit of weight b of the corner index i is set, -1 otherwise
BitSign(i, b) == IF (i \div b) % 2 = 1 THEN 1 ELSE -1

\* the corners (+-1, +-1, +-1) in the order ---, --+, -+-, -++, +--, +-+, ++-, +++
UnitCorners ==
    << <<-Den, -Den, -Den>>, <<-Den, -Den, Den>>, <<-Den, Den, -Den>>, <<-Den, Den, Den>>,
       <<Den, -Den, -Den>>,  <<Den, -Den, Den>>,  <<Den, Den, -Den>>,  <<Den, Den, Den>> >>

\* C8: at heading 0, corner i of the box of the instance kept last is the
\* centre plus or minus the half sizes, plus on x iff bit 2 of i is set, on y
\* iff bit 1 is set, on z iff bit 0 is set; for centre (0,0,0) and size
\* (2,2,2) the corners are (+-1, +-1, +-1) in the order ---, --+, ..., +++.
C8_CornerOrderAtHeadingZero ==
    (corners # <<>> /\ obj_meta[Len(obj_meta)][7] = 0) =>
        LET m == obj_meta[Len(obj_meta)]
        IN  /\ \A i \in 0..7 :
                corners[i + 1] = << m[1] + BitSign(i, 4) * (m[4] \div 2),
                                    m[2] + BitSign(i, 2) * (m[5] \div 2),
                                    m[3] + BitSign(i, 1) * (m[6] \div 2) >>
            /\ ( SubSeq(m, 1, 6) = <<0, 0, 0, Fx(2), Fx(2), Fx(2)>> )
                 => corners = UnitCorners

\* C8 witness: the corners of the box of centre (0,0,0), size (2,2,2) and
\* heading 0 have been computed.
C8_Witness ==
    /\ corners # <<>>
    /\ SubSeq(obj_meta[Len(obj_meta)], 1, 7) = <<0, 0, 0, Fx(2), Fx(2), Fx(2), 0>>
    /\ corners[1] # corners[8]

Normal(plane) == SubSeq(plane, 1, 3)

\* four times the mean of normal . corner over four corners of the box
DotSum4(plane, bbox, c1, c2, c3, c4) ==
    LET n == Normal(plane)
    IN  Dot(n, bbox[c1]) + Dot(n, bbox[c2]) + Dot(n, bbox[c3]) + Dot(n, bbox[c4])

\* C9: where the plane mask is 1, the upper, right and back planes have the
\* normals of the fitted lower, left and front planes, and their offsets are
\* minus the mean of normal . corner over the 4 corners of their own face
\* (corners 1,3,5,7 for upper, 4..7 for right, 2,3,6,7 for back, from 0).
C9_OppositeFacesParallel ==
    \A j \in DOMAIN plane_label_mask :
        plane_label_mask[j] = 1 =>
            LET bbox == InstanceCorners(j)
            IN  /\ Normal(plane_votes_upper[j]) = Normal(plane_votes_lower[j])
                /\ Normal(plane_votes_right[j]) = Normal(plane_votes_left[j])
                /\ Normal(plane_votes_back[j]) = Normal(plane_votes_front[j])
                /\ 4 * plane_votes_upper[j][4] = -DotSum4(plane_votes_lower[j], bbox, 2, 4, 6, 8)
                /\ 4 * plane_votes_right[j][4] = -DotSum4(plane_votes_left[j], bbox, 5, 6, 7, 8)
                /\ 4 * plane_votes_back[j][4] = -DotSum4(plane_votes_front[j], bbox, 3, 4, 7, 8)

\* C9 witness: plane labels written after a rotation, the fits of the lower,
\* left and front planes having returned normals of different lengths.
C9_Witness ==
    /\ SceneConsistent
    /\ point_rot # Eye
    /\ \E j \in DOMAIN plane_label_mask :
        /\ plane_label_mask[j] = 1
        /\ SqLen(Normal(plane_votes_lower[j])) # SqLen(Normal(plane_votes_left[j]))
        /\ SqLen(Normal(plane_votes_front[j])) # SqLen(Normal(plane_votes_left[j]))
        /\ plane_votes_upper[j][4] # plane_votes_lower[j][4]

---------------------------------------------------------------------------
\* the first component of a row times -1
NegX(v) == [v EXCEPT ![1] = -v[1]]

\* the point of the scene files that row j of the sampled arrays was drawn from
OrigPoint(j) == Pool[scene[choices[j]]]

\* the call applied the flip along the YZ plane and nothing else
XReflectedOnly == point_yz = 1 /\ point_xz = -1 /\ point_rot = Eye

\* C11: when the reflection across x = 0 is the only augmentation applied,
\* every sampled point, plane-patch row and instance centre is the loaded one
\* with its x component negated, the heading is the loaded one negated, and
\* the centre vote of every member point of a kept instance is the vote of
\* the unreflected scene (loaded centre minus loaded point) with its x
\* component negated and y, z unchanged.
C11_XReflectionMirrorsVotes ==
    (pc \notin {"sample", "augment"} /\ XReflectedOnly) =>
        /\ \A j \in DOMAIN point_cloud :
            /\ point_cloud[j] = NegX(OrigPoint(j).xyz)
            /\ plane_vertices[j] = NegX(OrigPoint(j).plane)
            /\ meta_vertices[j]
                 = [NegX(OrigPoint(j).meta) EXCEPT ![7] = -OrigPoint(j).meta[7]]
        /\ pc = "done" =>
            \A j \in DOMAIN point_cloud :
                KeptPoint(j) =>
                    ret_dict.vote_label[j]
                        = Triple(NegX(VSub(SubSeq(OrigPoint(FirstMember(j)).meta, 1, 3),
                                           OrigPoint(j).xyz)))

\* C11 witness: a bundle returned after the x-reflection alone, with a member
\* point whose vote has a nonzero x component and an instance of nonzero
\* heading.
C11_Witness ==
    /\ pc = "done"
    /\ XReflectedOnly
    /\ SceneConsistent
    /\ \E j \in DOMAIN point_cloud :
        /\ KeptPoint(j)
        /\ ret_dict.vote_label[j][1] # 0
    /\ \E j \in DOMAIN point_cloud : OrigPoint(j).meta[7] # 0

\* the metadata rows of the sampled points agree within every instance
SampledRowsAgree ==
    \A i, j \in DOMAIN meta_vertices :
        instance_labels[i] = instance_labels[j] => meta_vertices[i] = meta_vertices[j]

\* C12: a call whose sampled points carry different metadata rows within one
\* instance never returns a label bundle.
C12_InconsistentMetadataAborts == pc = "done" => SampledRowsAgree

---------------------------------------------------------------------------
\* the corner indices of the program, in the place of the corners
CornerIdx == <<0, 1, 2, 3, 4, 5, 6, 7>>

\* the corner indices whose bit of weight b is set (sign 1) or not (sign -1)
BitSide(b, sign) == {i \in 0..7 : BitSign(i, b) = sign}

\* the coordinate of corner p along the local axis u of the box at center
LocalCoord(p, center, u) == Dot(VSub(p, center), u)

\* the quadruples of lines 373-387 as sets of corner indices: lower is
\* {0,2,4,6}, upper {1,3,5,7}, left {0,1,2,3}, right {4,5,6,7}, front
\* {0,1,4,5}, back {2,3,6,7}; each is the side of one bit of the index, and
\* the two quadruples of a pair are disjoint and cover the 8 corners
FaceIndexSets ==
    /\ Range(LowerFace(CornerIdx)) = {0, 2, 4, 6} /\ Range(UpperFace(CornerIdx)) = {1, 3, 5, 7}
    /\ Range(LeftFace(CornerIdx)) = {0, 1, 2, 3}  /\ Range(RightFace(CornerIdx)) = {4, 5, 6, 7}
    /\ Range(FrontFace(CornerIdx)) = {0, 1, 4, 5} /\ Range(BackFace(CornerIdx)) = {2, 3, 6, 7}
    /\ Range(LowerFace(CornerIdx)) = BitSide(1, -1) /\ Range(UpperFace(CornerIdx)) = BitSide(1, 1)
    /\ Range(LeftFace(CornerIdx)) = BitSide(4, -1)  /\ Range(RightFace(CornerIdx)) = BitSide(4, 1)
    /\ Range(FrontFace(CornerIdx)) = BitSide(2, -1) /\ Range(BackFace(CornerIdx)) = BitSide(2, 1)
    /\ \A pair \in { <<LowerFace(CornerIdx), UpperFace(CornerIdx)>>,
                     <<LeftFace(CornerIdx), RightFace(CornerIdx)>>,
                     <<FrontFace(CornerIdx), BackFace(CornerIdx)>> } :
        /\ Range(pair[1]) \cap Range(pair[2]) = {}
        /\ Range(pair[1]) \cup Range(pair[2]) = 0..7

\* C13: the quadruple the lower plane is fit from is corners {0,2,4,6}, upper
\* uses {1,3,5,7}, left {0,1,2,3}, right {4,5,6,7}, front {0,1,4,5}, back
\* {2,3,6,7}; the two quadruples of a pair are disjoint and cover the 8
\* corners; and for every point with plane labels the corners of the lower
\* and upper quadruples of its box are the z-min and z-max ones, those of
\* left and right the local-x-min and -max ones, those of front and back the
\* local-y-min and -max ones.
C13_FaceQuadruplesMatchCornerOrder ==
    /\ FaceIndexSets
    /\ \A j \in DOMAIN plane_label_mask :
        plane_label_mask[j] = 1 =>
            LET m    == InstanceRow(j)
                c    == SubSeq(m, 1, 3)
                bbox == InstanceCorners(j)
                ux   == <<Cos(m[7]), Sin(m[7]), 0>>
                uy   == <<-Sin(m[7]), Cos(m[7]), 0>>
            IN  /\ \A p \in Range(LowerFace(bbox)) : p[3] < c[3]
                /\ \A p \in Range(UpperFace(bbox)) : p[3] > c[3]
                /\ \A p \in Range(LeftFace(bbox)) : LocalCoord(p, c, ux) < 0
                /\ \A p \in Range(RightFace(bbox)) : LocalCoord(p, c, ux) > 0
                /\ \A p \in Range(FrontFace(bbox)) : LocalCoord(p, c, uy) < 0
                /\ \A p \in Range(BackFace(bbox)) : LocalCoord(p, c, uy) > 0

\* C13 witness: plane labels written for a box whose heading is not 0, so
\* that its local x and y axes are not the axes of the scene.
C13_Witness ==
    /\ SceneConsistent
    /\ \E j \in DOMAIN plane_label_mask :
        /\ plane_label_mask[j] = 1
        /\ InstanceRow(j)[7] # 0
        /\ Sin(InstanceRow(j)[7]) # 0
        /\ corners = InstanceCorners(j)

---------------------------------------------------------------------------
\* the number of sampled points of point j's instance in point j's plane patch
PatchCount(j) ==
    Cardinality({k \in DOMAIN instance_labels :
                    /\ instance_labels[k] = instance_labels[j]
                    /\ plane_vertices[k][5] = plane_vertices[j][5]})

\* the six plane rows of point j in the returned bundle
PlaneRows(j) ==
    << plane_votes_front[j], plane_votes_back[j], plane_votes_left[j],
       plane_votes_right[j], plane_votes_upper[j], plane_votes_lower[j] >>

\* the number of passes of the instance loop up to the instance of point j
PassOf(j) ==
    Cardinality({instance_labels[k] : k \in {l \in DOMAIN instance_labels :
                    instance_labels[l] <= instance_labels[j]}})

\* the labels of point j are settled: the instance loop has just passed the
\* instance of point j, or the bundle is returned
Settled(j) ==
    \/ pc = "done"
    \/ pc = "instances" /\ PassOf(j) = i_instance - 1

\* when the loop has just passed them, and in the returned bundle, the points
\* of the kept instances have plane mask 1 and six plane equations exactly when
\* their patch id is positive and their patch has at least least points of
\* the instance, and plane mask 0 and zero rows otherwise
PlaneMaskFollows(least) ==
    \A j \in DOMAIN plane_label_mask :
        (Settled(j) /\ KeptPoint(j)) =>
            LET on == plane_vertices[j][5] > 0 /\ PatchCount(j) >= least
            IN  /\ plane_label_mask[j] = (IF on THEN 1 ELSE 0)
                /\ pc = "done" => ret_dict.plane_label_mask[j] = plane_label_mask[j]
                /\ \A i \in 1..6 :
                    IF on THEN SubSeq(PlaneRows(j)[i], 1, 3) # Zeros(3)
                    ELSE PlaneRows(j)[i] = Zeros(4)

\* C14 as stated: within a kept instance, a point of a plane patch (patch id
\* > 0) has plane mask 1 and the six plane equations iff the patch has at
\* least the threshold number (10 in the source) of the instance's sampled
\* points; points of smaller patches and of patch id 0 have plane mask 0.
C14_PlaneThresholdAtLeast == PlaneMaskFollows(MIN_PLANE_POINTS)

\* C14 amended: ... iff the patch has more than the threshold number of the
\* instance's sampled points (at least 11 in the source); a patch of exactly
\* the threshold number of points gets plane mask 0 and no plane equation.
C14_PlaneThresholdStrict == PlaneMaskFollows(MIN_PLANE_POINTS + 1)

\* C14 witness: a bundle with a kept instance whose patch has exactly the
\* threshold number of points (mask 0) and a kept instance whose patch has
\* one point more (mask 1).
C14_Witness ==
    /\ pc = "done"
    /\ SceneConsistent
    /\ \E j, k \in DOMAIN instance_labels :
        /\ KeptPoint(j) /\ plane_vertices[j][5] > 0
        /\ PatchCount(j) = MIN_PLANE_POINTS
        /\ ret_dict.plane_label_mask[j] = 0
        /\ KeptPoint(k) /\ plane_vertices[k][5] > 0
        /\ PatchCount(k) = MIN_PLANE_POINTS + 1
        /\ ret_dict.plane_label_mask[k] = 1

---------------------------------------------------------------------------
\* no plane patch of the instance of point j is kept by the test of line 364
NoPlaneGroup(j) ==
    \A k \in DOMAIN instance_labels :
        instance_labels[k] = instance_labels[j]
            => ~(plane_vertices[k][5] > 0 /\ PatchCount(k) > MIN_PLANE_POINTS)

\* no plane patch of the instance of point j has the threshold number of points
BelowThreshold(j) ==
    \A k \in DOMAIN instance_labels :
        instance_labels[k] = instance_labels[j]
            => ~(plane_vertices[k][5] > 0 /\ PatchCount(k) >= MIN_PLANE_POINTS)

\* C15: when the loop has just passed a kept instance none of whose patches
\* is kept, every member point has vote mask 1, its centre vote and its
\* corner vote, plane mask 0 and six zero plane rows, and the instance has
\* its metadata row in obj_meta; in the returned bundle the instance has a
\* box slot with mask 1 and the plane arrays of its points are 0.
C15_NoPlaneInstanceKeepsVotes ==
    \A j \in DOMAIN point_votes_mask :
        (Settled(j) /\ KeptPoint(j) /\ NoPlaneGroup(j)) =>
            /\ point_votes_mask[j] = 1
            /\ point_votes[j] = VSub(InstanceCenter(j), point_cloud[j])
            /\ point_votes_corner[j]
                 = VSub(NearestCornerPoint(j), point_cloud[j])
            /\ plane_label_mask[j] = 0
            /\ \A i \in 1..6 : PlaneRows(j)[i] = Zeros(4)
            /\ \E i \in DOMAIN obj_meta : obj_meta[i] = InstanceRow(j)
            /\ pc = "done" =>
                /\ \E i \in 1..MAX_NUM_OBJ :
                    /\ ret_dict.box_label_mask[i] = 1
                    /\ ret_dict.center_label[i] = InstanceCenter(j)
                /\ ret_dict.vote_label_mask[j] = 1
                /\ ret_dict.vote_label[j] = Triple(point_votes[j])
                /\ ret_dict.vote_label_corner[j] = Triple(point_votes_corner[j])
                /\ ret_dict.plane_label_mask[j] = 0
                /\ ret_dict.plane_votes_rot_upper[j] = Zeros(9)
                /\ ret_dict.plane_votes_off_upper[j] = Zeros(3)
                /\ ret_dict.plane_votes_rot_lower[j] = Zeros(9)
                /\ ret_dict.plane_votes_off_lower[j] = Zeros(3)
                /\ ret_dict.plane_votes_rot_left[j] = Zeros(9)
                /\ ret_dict.plane_votes_off_left[j] = Zeros(3)
                /\ ret_dict.plane_votes_rot_right[j] = Zeros(9)
                /\ ret_dict.plane_votes_off_right[j] = Zeros(3)
                /\ ret_dict.plane_votes_rot_front[j] = Zeros(9)
                /\ ret_dict.plane_votes_off_front[j] = Zeros(3)
                /\ ret_dict.plane_votes_rot_back[j] = Zeros(9)
                /\ ret_dict.plane_votes_off_back[j] = Zeros(3)

\* C15 witness: a bundle with an instance of nonzero id and valid class none
\* of whose patches has the threshold number of points, beside an instance
\* that has plane labels.
C15_Witness ==
    /\ pc = "done"
    /\ SceneConsistent
    /\ \E j, k \in DOMAIN instance_labels :
        /\ KeptPoint(j) /\ instance_labels[j] # 0
        /\ BelowThreshold(j)
        /\ point_votes[j] # Zeros(3)
        /\ plane_label_mask[k] = 1

---------------------------------------------------------------------------
\* the metadata row of the instance of id ii: that of its first sampled point
RowOfId(ii) ==
    meta_vertices[CHOOSE k \in DOMAIN instance_labels :
                     /\ instance_labels[k] = ii
                     /\ \A l \in 1..(k - 1) : instance_labels[l] # ii]

\* in the returned bundle the box slots are those of the instances of idset
\* in ascending order of instance id: mask 1 and the instance's centre, size
\* class and residual, heading class and residual and semantic class in slot
\* i for the i-th id, mask 0 and zeros in every slot after the last id
SlotLayout(idset) ==
    pc = "done" =>
        LET ids == SortedSeq(idset)
            n   == Len(ids)
        IN  \A i \in 1..MAX_NUM_OBJ :
                IF i <= n
                THEN LET m == RowOfId(ids[i])
                     IN  /\ ret_dict.box_label_mask[i] = 1
                         /\ ret_dict.center_label[i] = SubSeq(m, 1, 3)
                         /\ ret_dict.size_class_label[i] = ClassInd(m[9])
                         /\ ret_dict.size_residual_label[i]
                              = VSub(SubSeq(m, 4, 6), mean_size_arr[ClassInd(m[9]) + 1])
                         /\ <<ret_dict.heading_class_label[i], ret_dict.heading_residual_label[i]>>
                              = angle2class2(m[7], num_heading_bin)
                         /\ ret_dict.sem_cls_label[i] = nyu40id2class(m[9])
                ELSE /\ ret_dict.box_label_mask[i] = 0
                     /\ ret_dict.center_label[i] = Zeros(3)
                     /\ ret_dict.size_class_label[i] = 0
                     /\ ret_dict.size_residual_label[i] = Zeros(3)
                     /\ ret_dict.heading_class_label[i] = 0
                     /\ ret_dict.heading_residual_label[i] = 0
                     /\ ret_dict.sem_cls_label[i] = 0

\* C16: in the returned bundle, with n retained instances (nonzero id, valid
\* class), box_label_mask is 1 in the first n slots and 0 after; slot i holds
\* the centre, size class and residual, heading class and residual and
\* semantic class of the i-th retained instance in ascending order of
\* instance id; every later slot is all 0.
C16_BoxSlotLayout == SlotLayout(RetainedIds)

\* The same layout with the groups the loop of line 323 keeps (the group of
\* instance id 0 included) in the place of the retained instances: it holds
\* in every returned bundle.
BoxSlotsFollowKeptGroups == SlotLayout(KeptIds)

---------------------------------------------------------------------------
\* the loaded rows of the sampled points, before augmentation
SampledAtRest(field) == [j \in DOMAIN choices |-> OrigPoint(j)[field]]

\* the loaded rows of the whole scene
SceneAtRest(field) == [j \in 1..SceneSize |-> Pool[scene[j]][field]]

\* the call applied no flip and the identity rotation
NotMoved == point_yz = -1 /\ point_xz = -1 /\ point_rot = Eye

\* C17: at the end of the augmentation step, and in the returned bundle, the
\* occupancy grid is the one of the sampled point cloud as augmented and the
\* two heatmaps are those of the metadata rows as augmented: never the grids
\* loaded at the start of the call, never grids of the coordinates before
\* augmentation.  Against the loaded scene: the grid of an unmoved call is
\* that of the loaded rows of the accepted draw, the grid of a call that
\* applied the x-reflection alone is that of these rows with x negated.
C17_GridsFromAugmentedSample ==
    /\ (pc = "instances" /\ i_instance = 1) =>
        /\ vox = point_cloud_to_voxel_scene(point_cloud)
        /\ vox_center = VoxCenterAssign(meta_vertices)
        /\ vox_corner = VoxCornerAssign(meta_vertices)
    /\ pc = "done" =>
        /\ ret_dict.voxel = point_cloud_to_voxel_scene(ret_dict.point_clouds)
        /\ ret_dict.vox_center = VoxCenterAssign(meta_vertices)
        /\ ret_dict.vox_corner = VoxCornerAssign(meta_vertices)
        /\ NotMoved =>
            /\ ret_dict.voxel = point_cloud_to_voxel_scene(SampledAtRest("xyz"))
            /\ ret_dict.vox_center = VoxCenterAssign(SampledAtRest("meta"))
        /\ XReflectedOnly =>
            /\ ret_dict.voxel
                 = point_cloud_to_voxel_scene(
                     [j \in DOMAIN choices |-> NegX(OrigPoint(j).xyz)])
            /\ ret_dict.vox_center
                 = VoxCenterAssign(
                     [j \in DOMAIN choices |->
                        [NegX(OrigPoint(j).meta) EXCEPT ![7] = -OrigPoint(j).meta[7]]])

\* C17 witness: a bundle whose three grids differ from the loaded ones and
\* from those of the sampled rows before augmentation.
C17_Witness ==
    /\ pc = "done"
    /\ num_points < SceneSize
    /\ ret_dict.voxel # point_cloud_to_voxel_scene(SceneAtRest("xyz"))
    /\ ret_dict.voxel # point_cloud_to_voxel_scene(SampledAtRest("xyz"))
    /\ ret_dict.vox_center # VoxCenterAssign(SceneAtRest("meta"))
    /\ ret_dict.vox_center # VoxCenterAssign(SampledAtRest("meta"))
    /\ ret_dict.vox_corner # VoxCornerAssign(SceneAtRest("meta"))
    /\ ret_dict.vox_corner # VoxCornerAssign(SampledAtRest("meta"))

---------------------------------------------------------------------------
\* the first two components of a row reflected as the flags (yz, xz) say and
\* the row then turned by the matrix rot
Moved(v, yz, xz, rot) ==
    RotRow(rot, [c \in DOMAIN v |->
                    CASE c = 1 -> -yz * v[1]
                      [] c = 2 -> -xz * v[2]
                      [] OTHER -> v[c]])

\* C18: after the augmentation step, the sampled points, plane rows and
\* instance centres are the loaded rows of the accepted draw with x negated
\* iff the flag point_yz is 1, y negated iff point_xz is 1, the points and
\* plane rows then turned by the matrix point_rot; the flags are 1 or -1 and
\* the heading is the loaded one, negated once per flip, plus the angle
\* drawn; with augmentation disabled the flags are -1, -1,
\* the matrix is the identity and points, plane rows and metadata are the
\* loaded ones; the bundle returns the flags and the matrix as aug_yz,
\* aug_xz and aug_rot.
C18_AugFlagsReportWhatWasApplied ==
    /\ pc \notin {"sample", "augment"} =>
        /\ point_yz \in {-1, 1} /\ point_xz \in {-1, 1}
        /\ \A j \in DOMAIN point_cloud :
            /\ point_cloud[j] = Moved(OrigPoint(j).xyz, point_yz, point_xz, point_rot)
            /\ plane_vertices[j] = Moved(OrigPoint(j).plane, point_yz, point_xz, point_rot)
            /\ point_rot = Eye =>
                SubSeq(meta_vertices[j], 1, 6)
                    = SubSeq(Moved(OrigPoint(j).meta, point_yz, point_xz, Eye), 1, 6)
            /\ SubSeq(meta_vertices[j], 8, 9) = SubSeq(OrigPoint(j).meta, 8, 9)
        /\ \E rot_angle \in RotAngles \cup {0} :
            \A j \in DOMAIN point_cloud :
                meta_vertices[j][7] = point_yz * point_xz * OrigPoint(j).meta[7] + rot_angle
        /\ ~augment =>
            /\ NotMoved
            /\ point_cloud = SampledAtRest("xyz")
            /\ plane_vertices = SampledAtRest("plane")
            /\ meta_vertices = SampledAtRest("meta")
    /\ pc = "done" =>
        /\ ret_dict.aug_yz = point_yz
        /\ ret_dict.aug_xz = point_xz
        /\ ret_dict.aug_rot = point_rot
        /\ ret_dict.point_clouds = point_cloud

\* C18 witness: a bundle returned after one flip but not the other and a
\* rotation that is not the identity, with a point off both axes.
C18_Witness ==
    /\ pc = "done"
    /\ ret_dict.aug_yz = 1 /\ ret_dict.aug_xz = -1
    /\ ret_dict.aug_rot # Eye
    /\ \E j \in DOMAIN point_cloud :
        /\ OrigPoint(j).xyz[1] # 0 /\ OrigPoint(j).xyz[2] # 0
        /\ OrigPoint(j).meta[7] # 0

---------------------------------------------------------------------------
(***************************************************************************)
(* Lines 211-225: the arrays stay row-aligned through rejected draws.      *)
(***************************************************************************)
\* the per-point arrays are still the whole scene as loaded
WholeScene ==
    /\ point_cloud = SceneAtRest("xyz")
    /\ plane_vertices = SceneAtRest("plane")
    /\ meta_vertices = SceneAtRest("meta")
    /\ instance_labels = [j \in 1..SceneSize |-> Pool[scene[j]].meta[8]]
    /\ semantic_labels = [j \in 1..SceneSize |-> Pool[scene[j]].meta[9]]
    /\ pcl_color = [j \in 1..SceneSize |-> scene[j]]

\* the draw in choices passes the test of line 217 on the loaded labels
ChoicesAccepted ==
    /\ DOMAIN choices = 1..num_points
    /\ {OrigPoint(j).meta[8] : j \in DOMAIN choices}
           = {Pool[scene[j]].meta[8] : j \in 1..SceneSize}

\* C19: while the loop runs, rejected draws or not, the six per-point arrays
\* are the untouched scene; once it has ended, choices holds an accepted draw
\* and row j of the instance labels, the semantic labels and the colours is
\* the row of scene point choices[j], as is, before augmentation moves them,
\* row j of the point cloud, of the plane patches and of the metadata
C19_RowsFollowAcceptedDraw ==
    /\ pc = "sample" => WholeScene
    /\ pc # "sample" =>
        /\ ChoicesAccepted
        /\ \A j \in DOMAIN choices :
            /\ instance_labels[j] = OrigPoint(j).meta[8]
            /\ semantic_labels[j] = OrigPoint(j).meta[9]
            /\ pcl_color[j] = scene[choices[j]]
    /\ pc = "augment" =>
        /\ point_cloud = SampledAtRest("xyz")
        /\ plane_vertices = SampledAtRest("plane")
        /\ meta_vertices = SampledAtRest("meta")

\* a draw was rejected before the accepted one, and the accepted one both
\* reorders the points and differs from row to row in its labels
C19_Witness ==
    /\ pc = "augment"
    /\ resampled
    /\ \E j \in DOMAIN choices : choices[j] # j
    /\ \E j, k \in DOMAIN choices : instance_labels[j] # instance_labels[k]

=============================================================================
